---- MODULE Spec2Model ----
(***************************************************************************)
(* RPC over a serial link: the link layer (framing, CRC-8, the receive     *)
(* state machine of link_layer.c) and the transport layer (the synchronous *)
(* call API and the receiver task of transport.c).                         *)
(*                                                                         *)
(* The specifications share the variables:                                 *)
(*   SpecLink  one link_receive_frame call over a byte stream made of line *)
(*             noise, frames written by link_send_frame and a bit flip;    *)
(*   SpecSend  link_send_frame calls writing to a byte sink;               *)
(*   SpecRegister  transport_register_function calls up to capacity;       *)
(*   SpecDispatch  the receiver task serving requests and other frames     *)
(*             while the application registers its functions;              *)
(*   SpecStray the receiver task given frames that are no request and no   *)
(*             reply while the application registers and one task calls;   *)
(*   SpecServe the receiver task given requests and replies while the      *)
(*             application registers and one task calls;                   *)
(*   SpecBuild the sizes transport_call computes for a request payload;    *)
(*   Spec      callers of transport_call racing the receiver task;         *)
(*   SpecWrap  one caller, enough calls for the 8-bit counter to wrap;     *)
(*   SpecFair  Spec with the scheduler's fairness, for termination.        *)
(***************************************************************************)
EXTENDS Integers, Sequences, FiniteSets, TLC

VARIABLES
    \* ---- the serial line and one link_receive_frame call ----
    lphase,        \* "line", "tx", "rx" (the call is running), "ret" (it returned)
    wire,          \* the bytes the byte source will deliver, in order
    noise,         \* the line noise in front of the first frame
    sent,          \* the payloads handed to link_send_frame, in order
    flipBit,       \* the bit of the first frame the line flipped, -1 for none
    pos,           \* bytes of wire consumed by physical_receive_byte
    l_state,       \* state
    l_length,      \* length
    l_idx,         \* idx
    l_hdr,         \* hdr[3]
    l_crc,         \* full_crc_calc
    buffer,        \* the caller's buffer and the memory behind it, Garbage where never written
    buffer_size,
    out_len,       \* *out_len
    l_rc,          \* the call's return value, meaningful when lphase = "ret"
    \* ---- transport.c: the call API and the receiver task ----
    pc,              \* where each caller of transport_call stands
    call,            \* each caller's locals: request, counter, resp_ptr
    out,             \* each caller's return value and out parameters
    pending_mutex,   \* 0 when free, else the caller holding it
    pending_queue,   \* NULL, or the one-slot queue and what it holds
    current_counter, \* uint8_t
    rx_waiting,      \* the message the receiver task holds while blocked on the mutex
    tx,              \* the payload this step handed to link_send_frame, <<>> for none
    rx_event,        \* the message this step's receiver-task run handled, and how
    callSeq,         \* history: how many times current_counter was incremented
    timedOutCalls,   \* history: which of the first MaxTracked calls timed out
    \* ---- one link_send_frame call and its byte sink ----
    send_pc,         \* "idle", "called" (arguments chosen), "done" (it returned)
    send_args,       \* payload (null or bytes) and length
    sink,            \* the buffers handed to physical_send, in order
    send_rc,         \* the call's return value, meaningful when send_pc = "done"
    payload_build,   \* the request payload transport_call last built, by its sizes
    \* ---- transport.c: the function registry and request dispatch ----
    function_registry, \* MAX_FUNCTIONS slots of name and callback
    registry_count,
    reg_call,        \* the last transport_register_function call: arguments and result
    invoked,         \* the callbacks this step ran, with their arguments
    rx_msg           \* the frame the dispatching receiver task took in this step

linkVars == <<lphase, wire, noise, sent, flipBit, pos, l_state, l_length, l_idx,
              l_hdr, l_crc, buffer, buffer_size, out_len, l_rc>>
callVars == <<pc, call, out, pending_mutex, pending_queue, current_counter,
              rx_waiting, tx, rx_event, callSeq, timedOutCalls>>
sendVars == <<send_pc, send_args, sink, send_rc, payload_build>>
regVars == <<function_registry, registry_count, reg_call, invoked, rx_msg>>
vars == <<linkVars, callVars, sendVars, regVars>>

(***************************************************************************)
(* Bounds of the model.                                                    *)
(***************************************************************************)
\* longest payload handed to link_send_frame
MaxPayload == 2
\* longest run of line noise in front of the first frame
MaxNoise == 2
\* largest buffer_size handed to link_receive_frame
MaxBufSize == 2
\* functions the application registers before requests are served
MaxRegistered == 2
\* calls admitted (counter increments) before callers stop calling
MaxCalls == 2
\* the same for the single caller of SpecWrap: past one turn of the counter
WrapCalls == 257
\* longest data part of a received Response or Error message
MaxData == 1
\* the first calls whose timing out the history remembers
MaxTracked == 1
\* the longest name passed to transport_call
MaxNameLen == 257
\* how far below 65535 the large args_len values reach
MaxArgsBack == 6

(***************************************************************************)
(* Program constants.                                                      *)
(***************************************************************************)
LINK_START_BYTE == 250
LINK_DATA_START_BYTE == 251
LINK_STOP_BYTE == 254
MSG_TYPE_REQUEST == 11
MSG_TYPE_RESPONSE == 22
MSG_TYPE_ERROR == 33
\* the Stream tag of the header comment, which no case of the switch handles
MSG_TYPE_STREAM == 12
ERR_FUNC_NOT_FOUND == 1
ERR_INTERNAL == 2
MAX_FUNCTIONS == 8
\* uint8_t and uint16_t
U8 == 256
U16 == 65536

\* the byte values payloads and noise are drawn from: an ordinary byte and
\* the start marker itself
DataBytes == {1, LINK_START_BYTE}

\* the sequences over S of length at most n
SeqsUpTo(S, n) == UNION {[1..k -> S] : k \in 0..n}

Payloads == SeqsUpTo(DataBytes, MaxPayload)
\* the payloads of a second frame, sent right after the first
SecondPayloads == {<<>>, <<1>>}
Noises == SeqsUpTo(DataBytes, MaxNoise)

(***************************************************************************)
(* Bytes and CRC-8 (link_layer.c:10-30).                                   *)
(***************************************************************************)
\* bit i of a byte
BitOf(x, i) == (x \div (2 ^ i)) % 2

\* the ^ of two uint8_t, bit by bit
Xor8(a, b) ==
      ((BitOf(a, 0) + BitOf(b, 0)) % 2)
    + 2 * ((BitOf(a, 1) + BitOf(b, 1)) % 2)
    + 4 * ((BitOf(a, 2) + BitOf(b, 2)) % 2)
    + 8 * ((BitOf(a, 3) + BitOf(b, 3)) % 2)
    + 16 * ((BitOf(a, 4) + BitOf(b, 4)) % 2)
    + 32 * ((BitOf(a, 5) + BitOf(b, 5)) % 2)
    + 64 * ((BitOf(a, 6) + BitOf(b, 6)) % 2)
    + 128 * ((BitOf(a, 7) + BitOf(b, 7)) % 2)

\* crc = (crc & 0x80) ? (uint8_t)((crc << 1) ^ 0x07) : (uint8_t)(crc << 1)
Crc8Shift(crc) ==
    IF crc >= 128 THEN Xor8((crc * 2) % 256, 7) ELSE (crc * 2) % 256

\* for (j = 0; j < 8; j++) crc = Crc8Shift(crc)
Crc8Bits(crc0) ==
    LET sh[j \in 0..8] == IF j = 0 THEN crc0 ELSE Crc8Shift(sh[j - 1])
    IN  sh[8]

\* the eight shifts of every byte value, computed once
Crc8Shifted == [x \in 0..255 |-> Crc8Bits(x)]

\* crc ^= byte, then the eight shifts
crc8_update(crc, byte) == Crc8Shifted[Xor8(crc, byte)]

\* crc8_calc(data, length) with length = Len(data)
crc8_calc(data) ==
    LET blk[i \in 0..Len(data)] ==
            IF i = 0 THEN 0 ELSE Crc8Shifted[Xor8(blk[i - 1], data[i])]
    IN  blk[Len(data)]

(***************************************************************************)
(* link_send_frame (link_layer.c:38-90): the frame built for a payload.    *)
(***************************************************************************)
\* full_crc = 0; for (i = 0; i < n; i++) full_crc = crc8_update(full_crc, frame[i])
FullCrcOver(frame, n) ==
    LET full[i \in 0..n] == IF i = 0 THEN 0 ELSE crc8_update(full[i - 1], frame[i])
    IN  full[n]

\* the number of leading bytes the full CRC of the sender covers
SendCrcSpan_Short(length) == length + 4
SendCrcSpan(length) == length + 5

FrameHeader_BigEndian(length) ==
    LET hdr == <<LINK_START_BYTE, (length \div 256) % 256, length % 256>>
    IN  hdr \o <<crc8_calc(hdr), LINK_DATA_START_BYTE>>
FrameHeader(length) ==
    LET hdr == <<LINK_START_BYTE, length % 256, (length \div 256) % 256>>
    IN  hdr \o <<crc8_calc(hdr), LINK_DATA_START_BYTE>>

\* the frame_len bytes handed to physical_send
FrameBytes(payload) ==
    LET body == FrameHeader(Len(payload)) \o payload
    IN  body \o <<FullCrcOver(body, SendCrcSpan(Len(payload))), LINK_STOP_BYTE>>

(***************************************************************************)
(* The serial line: noise, the sender's frames, one flipped bit.           *)
(***************************************************************************)
\* an uninitialized byte of the receive buffer
Garbage == -1

FlipBitOf(bytes, k) ==
    [i \in 1..Len(bytes) |->
        IF i = (k \div 8) + 1 THEN Xor8(bytes[i], 2 ^ (k % 8)) ELSE bytes[i]]

InitLink ==
    /\ lphase = "line"
    /\ wire = <<>>
    /\ noise = <<>>
    /\ sent = <<>>
    /\ flipBit = -1
    /\ pos = 0
    /\ l_state = "ST_WAIT_START"
    /\ l_length = 0
    /\ l_idx = 0
    /\ l_hdr = <<0, 0, 0>>
    /\ l_crc = 0
    /\ buffer = <<>>
    /\ buffer_size = 0
    /\ out_len = 0
    /\ l_rc = 0

rxLocals == <<l_state, l_length, l_idx, l_hdr, l_crc, buffer, buffer_size, out_len, l_rc>>

\* bytes that are not part of any frame arrive before the first frame
PhysNoise ==
    /\ lphase = "line"
    /\ \E n \in Noises :
        /\ noise' = n
        /\ wire' = n
    /\ lphase' = "tx"
    /\ UNCHANGED <<sent, flipBit, pos, rxLocals>>
    /\ UNCHANGED <<callVars, sendVars, regVars>>

\* link_send_frame(p, Len(p)) with a sink that writes the whole frame
LinkSendFrame ==
    /\ lphase = "tx"
    /\ Len(sent) < 2
    /\ \E p \in (IF sent = <<>> THEN Payloads ELSE SecondPayloads) :
        /\ wire' = wire \o FrameBytes(p)
        /\ sent' = Append(sent, p)
    /\ UNCHANGED <<lphase, noise, flipBit, pos, rxLocals>>
    /\ UNCHANGED <<callVars, sendVars, regVars>>

\* the line flips one bit of the first frame (only on a line without noise)
PhysBitFlip ==
    /\ lphase = "tx"
    /\ Len(sent) = 1
    /\ noise = <<>>
    /\ flipBit = -1
    /\ \E k \in 0..(8 * Len(wire) - 1) :
        /\ flipBit' = k
        /\ wire' = FlipBitOf(wire, k)
    /\ UNCHANGED <<lphase, noise, sent, pos, rxLocals>>
    /\ UNCHANGED <<callVars, sendVars, regVars>>

(***************************************************************************)
(* link_receive_frame (link_layer.c:97-207), one byte per step.            *)
(***************************************************************************)
LinkRecvStart ==
    /\ lphase = "tx"
    /\ \E bs \in 0..MaxBufSize :
        /\ buffer_size' = bs
        /\ buffer' = [i \in 1..(bs + MaxPayload) |-> Garbage]
    /\ lphase' = "rx"
    /\ l_state' = "ST_WAIT_START"
    /\ l_length' = 0
    /\ l_idx' = 0
    /\ l_crc' = 0
    /\ UNCHANGED <<wire, noise, sent, flipBit, pos, l_hdr, out_len, l_rc>>
    /\ UNCHANGED <<callVars, sendVars, regVars>>

\* physical_receive_byte(&byte) delivered a byte and the state is st
Reading(st) ==
    /\ lphase = "rx"
    /\ pos < Len(wire)
    /\ l_state = st
    /\ pos' = pos + 1
    /\ UNCHANGED <<wire, noise, sent, flipBit, buffer_size>>
    /\ UNCHANGED <<callVars, sendVars, regVars>>

NextByte == wire[pos + 1]

\* physical_receive_byte(&byte) < 0
LinkRecvIOFail ==
    /\ lphase = "rx"
    /\ lphase' = "ret"
    /\ l_rc' = -2
    /\ UNCHANGED <<wire, noise, sent, flipBit, pos, l_state, l_length, l_idx, l_hdr,
                   l_crc, buffer, buffer_size, out_len>>
    /\ UNCHANGED <<callVars, sendVars, regVars>>

St_WAIT_START ==
    /\ Reading("ST_WAIT_START")
    /\ IF NextByte = LINK_START_BYTE
       THEN /\ l_crc' = crc8_update(0, NextByte)
            /\ l_hdr' = [l_hdr EXCEPT ![1] = NextByte]
            /\ l_state' = "ST_LEN_LOW"
       ELSE UNCHANGED <<l_crc, l_hdr, l_state>>
    /\ UNCHANGED <<lphase, l_length, l_idx, buffer, out_len, l_rc>>

St_LEN_LOW ==
    /\ Reading("ST_LEN_LOW")
    /\ l_hdr' = [l_hdr EXCEPT ![2] = NextByte]
    /\ l_crc' = crc8_update(l_crc, NextByte)
    /\ l_length' = NextByte
    /\ l_state' = "ST_LEN_HIGH"
    /\ UNCHANGED <<lphase, l_idx, buffer, out_len, l_rc>>

St_LEN_HIGH ==
    /\ Reading("ST_LEN_HIGH")
    /\ l_hdr' = [l_hdr EXCEPT ![3] = NextByte]
    /\ l_crc' = crc8_update(l_crc, NextByte)
    \* length |= byte << 8, the low byte already in place
    /\ l_length' = (l_length % 256) + 256 * NextByte
    /\ l_state' = "ST_HDR_CRC"
    /\ UNCHANGED <<lphase, l_idx, buffer, out_len, l_rc>>

HdrCrcOk(hdr, hdr_crc_read) == crc8_calc(hdr) = hdr_crc_read

St_HDR_CRC ==
    /\ Reading("ST_HDR_CRC")
    /\ IF HdrCrcOk(l_hdr, NextByte)
       THEN /\ l_crc' = crc8_update(l_crc, NextByte)
            /\ l_state' = "ST_DATA_START"
       ELSE /\ l_state' = "ST_WAIT_START"
            /\ UNCHANGED l_crc
    /\ UNCHANGED <<lphase, l_length, l_idx, l_hdr, buffer, out_len, l_rc>>

St_DATA_START ==
    /\ Reading("ST_DATA_START")
    /\ IF NextByte = LINK_DATA_START_BYTE
       THEN /\ l_crc' = crc8_update(l_crc, NextByte)
            /\ l_idx' = 0
            /\ l_state' = IF l_length = 0 THEN "ST_FULL_CRC" ELSE "ST_PAYLOAD"
       ELSE /\ l_state' = "ST_WAIT_START"
            /\ UNCHANGED <<l_crc, l_idx>>
    /\ UNCHANGED <<lphase, l_length, l_hdr, buffer, out_len, l_rc>>

St_PAYLOAD ==
    /\ Reading("ST_PAYLOAD")
    /\ IF l_idx < l_length
       THEN /\ buffer' = IF l_idx < buffer_size
                         THEN [buffer EXCEPT ![l_idx + 1] = NextByte]
                         ELSE buffer
            /\ l_crc' = crc8_update(l_crc, NextByte)
            /\ l_idx' = l_idx + 1
            /\ l_state' = IF l_idx + 1 >= l_length THEN "ST_FULL_CRC" ELSE "ST_PAYLOAD"
       ELSE UNCHANGED <<buffer, l_crc, l_idx, l_state>>
    /\ UNCHANGED <<lphase, l_length, l_hdr, out_len, l_rc>>

FullCrcOk_NoLengthCheck(length, bsize, full_crc_calc, full_crc_read) ==
    full_crc_calc = full_crc_read
FullCrcOk_Unchecked(length, bsize, full_crc_calc, full_crc_read) ==
    length <= bsize
FullCrcOk(length, bsize, full_crc_calc, full_crc_read) ==
    length <= bsize /\ full_crc_calc = full_crc_read

St_FULL_CRC ==
    /\ Reading("ST_FULL_CRC")
    /\ l_state' = IF FullCrcOk(l_length, buffer_size, l_crc, NextByte)
                  THEN "ST_STOP" ELSE "ST_WAIT_START"
    /\ UNCHANGED <<lphase, l_length, l_idx, l_hdr, l_crc, buffer, out_len, l_rc>>

St_STOP ==
    /\ Reading("ST_STOP")
    /\ IF NextByte = LINK_STOP_BYTE
       THEN /\ out_len' = l_length
            /\ l_rc' = 0
            /\ lphase' = "ret"
            /\ UNCHANGED l_state
       ELSE /\ l_state' = "ST_WAIT_START"
            /\ UNCHANGED <<out_len, l_rc, lphase>>
    /\ UNCHANGED <<l_length, l_idx, l_hdr, l_crc, buffer>>

NextLink ==
    \/ PhysNoise
    \/ LinkSendFrame
    \/ PhysBitFlip
    \/ LinkRecvStart
    \/ LinkRecvIOFail
    \/ St_WAIT_START
    \/ St_LEN_LOW
    \/ St_LEN_HIGH
    \/ St_HDR_CRC
    \/ St_DATA_START
    \/ St_PAYLOAD
    \/ St_FULL_CRC
    \/ St_STOP


(***************************************************************************)
(* link_send_frame (link_layer.c:38-90) with its failures, against a byte  *)
(* sink that may write less than it was handed.                            *)
(***************************************************************************)
\* no link_send_frame call under way
NoSendArgs == [null |-> TRUE, payload |-> <<>>, length |-> 0]

\* no request payload built yet
NoBuild == [strlen |-> 0, args_len |-> 0, name_len |-> 0, payload_len |-> 0,
            allocated |-> FALSE, off |-> 0]

InitSend ==
    /\ send_pc = "idle"
    /\ send_args = NoSendArgs
    /\ sink = <<>>
    /\ send_rc = 0
    /\ payload_build = NoBuild

\* the arguments of a call: a payload of length bytes, or a null payload
SendArgs ==
    {[null |-> FALSE, payload |-> p, length |-> Len(p)] : p \in Payloads}
        \cup {[null |-> TRUE, payload |-> <<>>, length |-> n] : n \in 0..MaxPayload}

\* link_layer.c:89: (written == (int)frame_len) ? 0 : -3
SendResult(written, frame_len) == IF written = frame_len THEN 0 ELSE -3

LinkSendCall ==
    /\ send_pc = "idle"
    /\ \E a \in SendArgs : send_args' = a
    /\ send_pc' = "called"
    /\ sink' = <<>>
    /\ UNCHANGED <<send_rc, payload_build, linkVars, callVars, regVars>>

\* the whole of link_send_frame
LinkSendRun ==
    /\ send_pc = "called"
    /\ send_pc' = "done"
    /\ UNCHANGED <<send_args, payload_build, linkVars, callVars, regVars>>
    /\ \/ \* !payload && length > 0
          /\ send_args.null /\ send_args.length > 0
          /\ send_rc' = -1
          /\ UNCHANGED sink
       \/ \* pvPortMalloc(frame_len) fails
          /\ ~(send_args.null /\ send_args.length > 0)
          /\ send_rc' = -2
          /\ UNCHANGED sink
       \/ \* the frame is built and handed to physical_send once
          /\ ~(send_args.null /\ send_args.length > 0)
          /\ LET frame == FrameBytes(send_args.payload)
             IN  \E written \in -1..Len(frame) :
                    /\ sink' = Append(sink, [data |-> frame, written |-> written])
                    /\ send_rc' = SendResult(written, Len(frame))

\* the caller has the result; the next call starts afresh
LinkSendReturn ==
    /\ send_pc = "done"
    /\ send_pc' = "idle"
    /\ send_args' = NoSendArgs
    /\ sink' = <<>>
    /\ send_rc' = 0
    /\ UNCHANGED <<payload_build, linkVars, callVars, regVars>>

NextSend ==
    \/ LinkSendCall
    \/ LinkSendRun
    \/ LinkSendReturn

(***************************************************************************)
(* transport.c: the state shared by transport_call and the receiver task.  *)
(***************************************************************************)
\* the tasks that call transport_call
Callers == {1, 2}

\* pending_queue == NULL
NullQueue == [null |-> TRUE, items |-> <<>>]
\* xQueueCreate(1, sizeof(void *))
NewQueue == [null |-> FALSE, items |-> <<>>]

\* no envelope: resp_ptr == NULL; msg is the message an envelope was built from
NoEnvelope == [buf |-> <<>>, msg |-> <<>>]

\* a caller outside transport_call
IdleCall == [req |-> <<>>, counter |-> 0, resp_ptr |-> NoEnvelope, seq |-> 0]
\* the caller's variables before the call, as main.c sets them; ret 1: not returned
NoResult == [ret |-> 1, error_code |-> 0, resp_len |-> 0, response |-> <<>>]

\* what the receiver task did in the last step, and the counter of the message
NoRxEvent == [ctr |-> -1, act |-> "none"]

\* the names and arguments callers pass
Names == {<<115, 117, 109>>, <<101>>}
Args == {<<>>, <<1>>}

InitTransport ==
    /\ pc = [c \in Callers |-> "idle"]
    /\ call = [c \in Callers |-> IdleCall]
    /\ out = [c \in Callers |-> NoResult]
    /\ pending_mutex = 0
    /\ pending_queue = NullQueue
    /\ current_counter = 0
    /\ rx_waiting = <<>>
    /\ tx = <<>>
    /\ rx_event = NoRxEvent
    /\ callSeq = 0
    /\ timedOutCalls = {}

\* an unused slot of function_registry
NoEntry == [name |-> <<>>, callback |-> "NULL"]

\* a name argument: a null pointer, or a string given by its bytes
NullName == [null |-> TRUE, str |-> <<>>]
Str(bytes) == [null |-> FALSE, str |-> bytes]

\* "sum", "echo" and the empty string
SumName == <<115, 117, 109>>
EchoName == <<101, 99, 104, 111>>

\* no transport_register_function call yet
NoRegCall == [name |-> NullName, callback |-> "NULL", rc |-> 1]

\* transport.c:31-32: function_registry zeroed, registry_count = 0
InitRegistry ==
    /\ function_registry = [i \in 1..MAX_FUNCTIONS |-> NoEntry]
    /\ registry_count = 0
    /\ reg_call = NoRegCall
    /\ invoked = <<>>
    /\ rx_msg = <<>>

Init == InitLink /\ InitTransport /\ InitSend /\ InitRegistry

(***************************************************************************)
(* The sizes of the request payload (transport.c:102-123).                 *)
(***************************************************************************)
\* uint8_t name_len = (uint8_t)strlen(name)
NameLen(strlen) == strlen % U8

\* uint16_t payload_len = (uint16_t)(2 + name_len + 1 + args_len)
PayloadLen(name_len, args_len) == (2 + name_len + 1 + args_len) % U16

\* the bytes the build writes from payload on: type, counter, name_len bytes
\* of the name, the terminator, args_len bytes of a non-null args
BytesWritten(name_len, args_len) == 2 + name_len + 1 + args_len

\* the name lengths and the args_len values callers pass
NameLengths == 0..MaxNameLen
ArgsLengths == {0, 1, 8} \cup {U16 - k : k \in 1..MaxArgsBack}

\* transport.c:102-123 for a name of strlen bytes and args_len bytes of
\* arguments; when pvPortMalloc fails nothing is written
BuildPayload ==
    /\ payload_build = NoBuild
    /\ \E strlen \in NameLengths, args_len \in ArgsLengths, allocated \in BOOLEAN :
          LET name_len == NameLen(strlen)
          IN  payload_build' =
                  [strlen |-> strlen, args_len |-> args_len, name_len |-> name_len,
                   payload_len |-> PayloadLen(name_len, args_len),
                   allocated |-> allocated,
                   off |-> IF allocated THEN BytesWritten(name_len, args_len) ELSE 0]
    /\ UNCHANGED <<send_pc, send_args, sink, send_rc>>
    /\ UNCHANGED <<linkVars, callVars, regVars>>

\* one transport_call builds one payload
NextBuild == BuildPayload

(***************************************************************************)
(* transport_call (transport.c:83-180).                                    *)
(***************************************************************************)
\* the request payload of transport.c:102-123: name_len is strlen(name) cut
\* to 8 bits and payload_len the sum cut to 16 bits
RequestPayload(counter, name, args) ==
    LET name_len == Len(name) % U8
        payload_len == (2 + name_len + 1 + Len(args)) % U16
        bytes == <<MSG_TYPE_REQUEST, counter>> \o SubSeq(name, 1, name_len)
                     \o <<0>> \o args
    IN  SubSeq(bytes, 1, payload_len)

\* a step of a caller that is not a step of the receiver task and sends nothing
Quiet == /\ tx' = <<>>
         /\ rx_event' = NoRxEvent
         /\ UNCHANGED <<linkVars, sendVars, regVars>>

Returns(c, rc) ==
    /\ pc' = [pc EXCEPT ![c] = "ret"]
    /\ out' = [out EXCEPT ![c].ret = rc]

\* a caller enters transport_call with non-null arguments
CallStart(c, cap) ==
    /\ pc[c] = "idle"
    /\ callSeq < cap
    /\ pc' = [pc EXCEPT ![c] = "take"]
    /\ out' = [out EXCEPT ![c] = NoResult]
    /\ Quiet
    /\ UNCHANGED <<call, pending_mutex, pending_queue, current_counter, rx_waiting,
                   callSeq, timedOutCalls>>

\* the counter a new call takes: current_counter++ on a uint8_t
NextCounter(counter) == (counter + 1) % U8

\* what the refused caller does to the counter: nothing
RejectCounter_Bumps(counter) == (counter + 1) % U8
RejectCounter(counter) == counter

\* transport.c:90-115: take the mutex, refuse a second call, create the
\* queue, take a counter, build the payload
CallAdmit(c) ==
    /\ pc[c] = "take"
    /\ pending_mutex = 0
    /\ Quiet
    /\ UNCHANGED <<rx_waiting, timedOutCalls>>
    /\ \/ \* another call is pending
          /\ ~pending_queue.null
          /\ Returns(c, -3)
          /\ current_counter' = RejectCounter(current_counter)
          /\ UNCHANGED <<call, pending_mutex, pending_queue, callSeq>>
       \/ \* xQueueCreate fails
          /\ pending_queue.null
          /\ Returns(c, -4)
          /\ UNCHANGED <<call, pending_mutex, pending_queue, current_counter, callSeq>>
       \/ \* pvPortMalloc(payload_len) fails, after the counter was taken
          /\ pending_queue.null
          /\ Returns(c, -5)
          /\ current_counter' = NextCounter(current_counter)
          /\ callSeq' = callSeq + 1
          /\ UNCHANGED <<call, pending_mutex, pending_queue>>
       \/ \* admitted: the mutex stays held into link_send_frame
          /\ pending_queue.null
          /\ pending_queue' = NewQueue
          /\ current_counter' = NextCounter(current_counter)
          /\ callSeq' = callSeq + 1
          /\ \E name \in Names, args \in Args :
                call' = [call EXCEPT ![c].counter = NextCounter(current_counter),
                                     ![c].seq = callSeq + 1,
                                     ![c].req = RequestPayload(NextCounter(current_counter),
                                                               name, args)]
          /\ pending_mutex' = c
          /\ pc' = [pc EXCEPT ![c] = "send"]
          /\ UNCHANGED out

\* transport.c:132 and 136: xSemaphoreGive(pending_mutex) by its holder
Give_KeepsMutex(holder) == holder
Give(holder) == 0

\* transport.c:129-130: vQueueDelete(pending_queue); pending_queue = NULL
SendFailureQueue_Kept(queue) == queue
SendFailureQueue(queue) == NullQueue

\* transport.c:126-136: link_send_frame under the mutex, then xSemaphoreGive
CallSend(c) ==
    /\ pc[c] = "send"
    /\ pending_mutex = c
    /\ rx_event' = NoRxEvent
    /\ UNCHANGED <<linkVars, sendVars, regVars>>
    /\ pending_mutex' = Give(c)
    /\ call' = [call EXCEPT ![c].req = <<>>]
    /\ UNCHANGED <<current_counter, rx_waiting, callSeq, timedOutCalls>>
    /\ \/ \* rc != 0
          /\ tx' = <<>>
          /\ pending_queue' = SendFailureQueue(pending_queue)
          /\ Returns(c, -6)
       \/ \* the frame went out
          /\ tx' = call[c].req
          /\ pc' = [pc EXCEPT ![c] = "wait"]
          /\ UNCHANGED <<pending_queue, out>>

\* transport.c:140: xQueueReceive hands over the envelope
CallReceive(c) ==
    /\ pc[c] = "wait"
    /\ ~pending_queue.null
    /\ pending_queue.items # <<>>
    /\ call' = [call EXCEPT ![c].resp_ptr = Head(pending_queue.items)]
    /\ pending_queue' = [pending_queue EXCEPT !.items = Tail(@)]
    /\ pc' = [pc EXCEPT ![c] = "got"]
    /\ Quiet
    /\ UNCHANGED <<out, pending_mutex, current_counter, rx_waiting, callSeq, timedOutCalls>>

\* a call whose timeout never runs out
CallTimeout_Forever(c) ==
    /\ pc[c] = "wait"
    /\ FALSE
    /\ UNCHANGED vars

\* transport.c:140: xQueueReceive gives up on an empty queue after timeout_ms
CallTimeout(c) ==
    /\ pc[c] = "wait"
    /\ pending_queue.items = <<>>
    /\ pc' = [pc EXCEPT ![c] = "timedout"]
    /\ Quiet
    /\ UNCHANGED <<call, out, pending_mutex, pending_queue, current_counter,
                   rx_waiting, callSeq, timedOutCalls>>

\* transport.c:142-146: the timeout path deletes the queue under the mutex
CallTimeoutCleanup(c) ==
    /\ pc[c] = "timedout"
    /\ pending_mutex = 0
    /\ pending_queue' = NullQueue
    /\ Returns(c, -7)
    /\ timedOutCalls' = IF call[c].seq <= MaxTracked
                        THEN timedOutCalls \cup {call[c].seq} ELSE timedOutCalls
    /\ Quiet
    /\ UNCHANGED <<call, pending_mutex, current_counter, rx_waiting, callSeq>>

\* datalen = resp_buf[0] | resp_buf[1] << 8
EnvelopeLen(buf) == buf[1] + 256 * buf[2]
EnvelopeData_FromErr(buf) == SubSeq(buf, 3, 2 + EnvelopeLen(buf))
EnvelopeData(buf) == SubSeq(buf, 4, 3 + EnvelopeLen(buf))

\* transport.c:150-172: unpack the envelope, copy the result, free the envelope
CallUnpack(c) ==
    LET buf == call[c].resp_ptr.buf
        datalen == EnvelopeLen(buf)
        error_code == buf[3]
    IN
    /\ pc[c] = "got"
    /\ Quiet
    /\ UNCHANGED <<call, pending_mutex, pending_queue, current_counter, rx_waiting,
                   callSeq, timedOutCalls>>
    /\ \/ \* an error: no result
          /\ error_code # 0
          /\ out' = [out EXCEPT ![c].error_code = error_code,
                                ![c].resp_len = 0, ![c].response = <<>>]
          /\ pc' = [pc EXCEPT ![c] = "clear"]
       \/ \* an empty result
          /\ error_code = 0
          /\ datalen = 0
          /\ out' = [out EXCEPT ![c].error_code = 0,
                                ![c].resp_len = 0, ![c].response = <<>>]
          /\ pc' = [pc EXCEPT ![c] = "clear"]
       \/ \* the result is copied
          /\ error_code = 0
          /\ datalen > 0
          /\ out' = [out EXCEPT ![c].error_code = 0, ![c].resp_len = datalen,
                                ![c].response = EnvelopeData(buf)]
          /\ pc' = [pc EXCEPT ![c] = "clear"]
       \/ \* pvPortMalloc(datalen) fails: return -8 with the queue still in place
          /\ error_code = 0
          /\ datalen > 0
          /\ out' = [out EXCEPT ![c].error_code = 0, ![c].resp_len = datalen,
                                ![c].response = <<>>, ![c].ret = -8]
          /\ pc' = [pc EXCEPT ![c] = "ret"]

\* transport.c:175-179: clear the pending state under the mutex, return 0
CallClear(c) ==
    /\ pc[c] = "clear"
    /\ pending_mutex = 0
    /\ pending_queue' = NullQueue
    /\ Returns(c, 0)
    /\ Quiet
    /\ UNCHANGED <<call, pending_mutex, current_counter, rx_waiting, callSeq, timedOutCalls>>

\* the caller has read the results and is free to call again
CallDone(c) ==
    /\ pc[c] = "ret"
    /\ pc' = [pc EXCEPT ![c] = "idle"]
    /\ call' = [call EXCEPT ![c] = IdleCall]
    /\ out' = [out EXCEPT ![c] = NoResult]
    /\ Quiet
    /\ UNCHANGED <<pending_mutex, pending_queue, current_counter, rx_waiting,
                   callSeq, timedOutCalls>>

(***************************************************************************)
(* transport_receiver_task (transport.c:212-309), Response and Error.      *)
(***************************************************************************)
\* the counters of the messages the peer may send: the pending call's, the
\* one before it, and those of the calls the history tracks
MsgCounters ==
    {current_counter, (current_counter + U8 - 1) % U8} \cup {k % U8 : k \in 1..MaxTracked}

\* the frames link_receive_frame hands the task: replies, a Stream message,
\* and frames too short to hold a type and a counter
Replies(types, datas) ==
    {<<t, k>> \o d : t \in types, k \in MsgCounters, d \in datas}
\* the bytes after the counter: result bytes or an error code, and a zero byte
ReplyData == SeqsUpTo({1}, MaxData) \cup {<<0>>}
ReplyMessages == Replies({MSG_TYPE_RESPONSE, MSG_TYPE_ERROR}, ReplyData)
\* a peer that answers every call with an empty Response
EmptyResponses == Replies({MSG_TYPE_RESPONSE}, {<<>>})
OtherMessages ==
    {<<>>, <<MSG_TYPE_RESPONSE>>, <<MSG_TYPE_STREAM, current_counter>>}

\* transport.c:276-297: the envelope [len_low][len_high][error][data...]
EnvelopeErr(msg) ==
    IF msg[1] = MSG_TYPE_ERROR
    THEN (IF Len(msg) >= 3 THEN msg[3] ELSE ERR_INTERNAL)
    ELSE 0

EnvelopeOf(msg) ==
    LET payload_len == IF msg[1] = MSG_TYPE_ERROR THEN 0 ELSE Len(msg) - 2
    IN  <<payload_len % 256, (payload_len \div 256) % 256, EnvelopeErr(msg)>>
        \o (IF msg[1] = MSG_TYPE_RESPONSE /\ payload_len > 0
            THEN SubSeq(msg, 3, Len(msg)) ELSE <<>>)

\* transport.c:275: pending_queue && counter == current_counter
Matches_AnyCounter(counter) == ~pending_queue.null
Matches_OneBehind(counter) ==
    ~pending_queue.null /\ counter \in {current_counter, (current_counter + U8 - 1) % U8}
Matches(counter) == ~pending_queue.null /\ counter = current_counter

\* transport.c:274-301 with the mutex taken and given back
Deliver(msg) ==
    /\ tx' = <<>>
    /\ UNCHANGED <<linkVars, sendVars, regVars>>
    /\ UNCHANGED <<pc, call, out, pending_mutex, current_counter, callSeq, timedOutCalls>>
    /\ \/ \* no call pending, or another counter: the message is dropped
          /\ ~Matches(msg[2])
          /\ rx_event' = [ctr |-> msg[2], act |-> "dropped"]
          /\ UNCHANGED pending_queue
       \/ \* pvPortMalloc of the envelope fails
          /\ Matches(msg[2])
          /\ rx_event' = [ctr |-> msg[2], act |-> "nomem"]
          /\ UNCHANGED pending_queue
       \/ \* xQueueSend(pending_queue, &copy, 0) finds the slot free
          /\ Matches(msg[2])
          /\ pending_queue.items = <<>>
          /\ rx_event' = [ctr |-> msg[2], act |-> "pushed"]
          /\ pending_queue' = [pending_queue EXCEPT
                                 !.items = <<[buf |-> EnvelopeOf(msg), msg |-> msg]>>]
       \/ \* xQueueSend finds the slot taken; its result is ignored
          /\ Matches(msg[2])
          /\ pending_queue.items # <<>>
          /\ rx_event' = [ctr |-> msg[2], act |-> "full"]
          /\ UNCHANGED pending_queue

\* a Response or Error frame arrives and the mutex is free
RxReply(msgs) ==
    /\ rx_waiting = <<>>
    /\ pending_mutex = 0
    /\ \E msg \in msgs : Deliver(msg)
    /\ UNCHANGED rx_waiting

\* a Response or Error frame arrives while a caller holds the mutex
RxBlock(msgs) ==
    /\ rx_waiting = <<>>
    /\ pending_mutex # 0
    /\ \E msg \in msgs : rx_waiting' = msg
    /\ Quiet
    /\ UNCHANGED <<pc, call, out, pending_mutex, pending_queue, current_counter,
                   callSeq, timedOutCalls>>

\* xSemaphoreTake returns in the blocked receiver task
RxUnblock ==
    /\ rx_waiting # <<>>
    /\ pending_mutex = 0
    /\ Deliver(rx_waiting)
    /\ rx_waiting' = <<>>

\* transport.c:221 and 305-307: a short frame or an unhandled type tag
RxIgnore ==
    /\ rx_waiting = <<>>
    /\ \E msg \in OtherMessages :
          rx_event' = [ctr |-> IF Len(msg) >= 2 THEN msg[2] ELSE -1, act |-> "ignored"]
    /\ tx' = <<>>
    /\ UNCHANGED <<linkVars, sendVars, regVars>>
    /\ UNCHANGED <<pc, call, out, pending_mutex, pending_queue, current_counter,
                   rx_waiting, callSeq, timedOutCalls>>

(***************************************************************************)
(* transport_register_function (transport.c:51-66).                        *)
(***************************************************************************)
\* the arguments startup code may pass: a null, empty or real name, a null
\* or real callback
RegArgs ==
    {<<n, cb>> : n \in {NullName, Str(<<>>), Str(SumName)}, cb \in {"NULL", "rpc_sum"}}
\* the registrations of rpc_app_init (rpc_app.c:19-22)
AppArgs == {<<Str(SumName), "rpc_sum">>, <<Str(EchoName), "rpc_echo">>}

\* transport.c:53: registry_count >= MAX_FUNCTIONS
RegistryFull(count) == count >= MAX_FUNCTIONS

\* one call of transport_register_function; startup code that registers fewer
\* than MAX_FUNCTIONS functions stops calling at cap entries
RegisterFunction(argset, cap) ==
    /\ registry_count < cap \/ cap >= MAX_FUNCTIONS
    /\ \E a \in argset :
          LET name == a[1]
              callback == a[2]
          IN  \/ \* !name || !callback
                 /\ name.null \/ callback = "NULL"
                 /\ reg_call' = [name |-> name, callback |-> callback, rc |-> -1]
                 /\ UNCHANGED <<function_registry, registry_count>>
              \/ /\ ~(name.null \/ callback = "NULL")
                 /\ RegistryFull(registry_count)
                 /\ reg_call' = [name |-> name, callback |-> callback, rc |-> -2]
                 /\ UNCHANGED <<function_registry, registry_count>>
              \/ \* pvPortMalloc(nlen + 1) fails
                 /\ ~(name.null \/ callback = "NULL")
                 /\ ~RegistryFull(registry_count)
                 /\ reg_call' = [name |-> name, callback |-> callback, rc |-> -3]
                 /\ UNCHANGED <<function_registry, registry_count>>
              \/ \* the entry is stored
                 /\ ~(name.null \/ callback = "NULL")
                 /\ ~RegistryFull(registry_count)
                 /\ registry_count + 1 \in DOMAIN function_registry
                 /\ function_registry' =
                       [function_registry EXCEPT ![registry_count + 1] =
                           [name |-> name.str, callback |-> callback]]
                 /\ registry_count' = registry_count + 1
                 /\ reg_call' = [name |-> name, callback |-> callback, rc |-> 0]
    /\ invoked' = <<>>
    /\ rx_msg' = <<>>
    /\ tx' = <<>>
    /\ rx_event' = NoRxEvent
    /\ UNCHANGED <<pc, call, out, pending_mutex, pending_queue, current_counter,
                   rx_waiting, callSeq, timedOutCalls>>
    /\ UNCHANGED <<linkVars, sendVars>>

NextRegister == RegisterFunction(RegArgs, MAX_FUNCTIONS)

(***************************************************************************)
(* The callbacks of rpc_app.c.                                             *)
(***************************************************************************)
\* a + b on uint32_t, both given and returned as four little-endian bytes
\* (rpc_app.c:40-50); the carry out of the top byte is lost
AddU32(a, b) ==
    LET s1 == a[1] + b[1]
        s2 == a[2] + b[2] + (s1 \div 256)
        s3 == a[3] + b[3] + (s2 \div 256)
        s4 == a[4] + b[4] + (s3 \div 256)
    IN  <<s1 % 256, s2 % 256, s3 % 256, s4 % 256>>

\* x \div 10 and x % 10 of a uint32_t given as four little-endian bytes
DivMod10(x) ==
    LET t4 == x[4]
        t3 == (t4 % 10) * 256 + x[3]
        t2 == (t3 % 10) * 256 + x[2]
        t1 == (t2 % 10) * 256 + x[1]
    IN  [quot |-> <<t1 \div 10, t2 \div 10, t3 \div 10, t4 \div 10>>, rem |-> t1 % 10]

RECURSIVE Decimal(_)
\* snprintf(tmp, sizeof(tmp), "%lu", result): the decimal ASCII digits
Decimal(x) ==
    IF x[4] = 0 /\ x[3] = 0 /\ x[2] = 0 /\ x[1] < 10
    THEN <<48 + x[1]>>
    ELSE Decimal(DivMod10(x).quot) \o <<48 + DivMod10(x).rem>>

\* what a callback hands back when it reports an error
CallbackError(code) == [resp_data |-> <<>>, resp_len |-> 0, err_code |-> code]

\* rpc_sum: the possible results, by whether pvPortMalloc succeeds
rpc_sum(args) ==
    IF Len(args) # 8
    THEN {CallbackError(ERR_INTERNAL)}
    ELSE LET digits == Decimal(AddU32(SubSeq(args, 1, 4), SubSeq(args, 5, 8)))
         IN  {[resp_data |-> digits, resp_len |-> Len(digits), err_code |-> 0],
              CallbackError(ERR_INTERNAL)}

\* rpc_echo: the possible results, by whether pvPortMalloc succeeds
rpc_echo(args) ==
    {[resp_data |-> args, resp_len |-> Len(args), err_code |-> 0],
     CallbackError(ERR_INTERNAL)}

\* entry->callback(args, args_len, &resp_data, &resp_len, &err_code)
CallbackResults(callback, args) ==
    IF callback = "rpc_sum" THEN rpc_sum(args) ELSE rpc_echo(args)

(***************************************************************************)
(* transport_receiver_task (transport.c:212-309), Request and default.     *)
(***************************************************************************)
\* transport.c:184-190
ErrorMessage_Silent(counter, error_code) == <<>>
ErrorMessage_AsResponse(counter, error_code) == <<MSG_TYPE_RESPONSE, counter, error_code>>
ErrorMessage(counter, error_code) == <<MSG_TYPE_ERROR, counter, error_code>>
\* transport.c:202-206
ResponseMessage(counter, data, len) ==
    <<MSG_TYPE_RESPONSE, counter>> \o SubSeq(data, 1, len)

\* transport.c:235-238: the index (from 0) of the first NUL at or after
\* offset 2, rx_len if there is none
NulIndex(msg) ==
    LET nuls == {i \in 2..(Len(msg) - 1) : msg[i + 1] = 0}
    IN  IF nuls = {} THEN Len(msg) ELSE CHOOSE i \in nuls : \A j \in nuls : i <= j

\* transport.c:72-73: strlen(entry name) == name_len && strncmp(...) == 0
NameMatches_Prefix(entry_name, name) ==
    Len(entry_name) <= Len(name) /\ entry_name = SubSeq(name, 1, Len(entry_name))
NameMatches(entry_name, name) ==
    Len(entry_name) = Len(name) /\ entry_name = name

\* find_function: the index of the first matching entry, 0 for NULL
find_function(name) ==
    LET hits == {i \in 1..registry_count : NameMatches(function_registry[i].name, name)}
    IN  IF hits = {} THEN 0 ELSE CHOOSE i \in hits : \A j \in hits : i <= j

\* transport.c:226-227, 271-272, 305: the case the switch takes for a type tag
IsRequest_OrStream(type) == type \in {MSG_TYPE_REQUEST, MSG_TYPE_STREAM}
IsRequest(type) == type = MSG_TYPE_REQUEST
IsReply(type) == type \in {MSG_TYPE_RESPONSE, MSG_TYPE_ERROR}

\* the step sends payload (or nothing) and runs the callbacks calls
Handled(msg, act, payload, calls) ==
    /\ rx_msg' = msg
    /\ rx_event' = [ctr |-> IF Len(msg) >= 2 THEN msg[2] ELSE -1, act |-> act]
    /\ tx' = payload
    /\ invoked' = calls

\* the error reported for a Request that cannot be parsed
MalformedCode_NotFound == ERR_FUNC_NOT_FOUND
MalformedCode == ERR_INTERNAL

\* case MSG_TYPE_REQUEST (transport.c:227-269)
Dispatch(msg) ==
    LET counter == msg[2]
        i == NulIndex(msg)
        name == SubSeq(msg, 3, i)
        args == SubSeq(msg, i + 2, Len(msg))
        entry == find_function(name)
    IN  IF Len(msg) < 3 \/ i >= Len(msg)
        THEN Handled(msg, "malformed", ErrorMessage(counter, MalformedCode), <<>>)
        ELSE IF entry = 0
        THEN Handled(msg, "notfound", ErrorMessage(counter, ERR_FUNC_NOT_FOUND), <<>>)
        ELSE \E r \in CallbackResults(function_registry[entry].callback, args) :
                LET ran == <<[callback |-> function_registry[entry].callback,
                              args |-> args, result |-> r]>>
                IN  \/ /\ r.err_code # 0
                       /\ Handled(msg, "called", ErrorMessage(counter, r.err_code), ran)
                    \/ \* send_response: pvPortMalloc(2 + len) fails
                       /\ r.err_code = 0
                       /\ Handled(msg, "called", ErrorMessage(counter, ERR_INTERNAL), ran)
                    \/ /\ r.err_code = 0
                       /\ Handled(msg, "called",
                                  ResponseMessage(counter, r.resp_data, r.resp_len), ran)

\* one frame from link_receive_frame that is no Response or Error
RxDispatch(msgs) ==
    /\ rx_waiting = <<>>
    /\ \E msg \in msgs :
          /\ Len(msg) >= 2 => ~IsReply(msg[1])
          /\ IF Len(msg) >= 2 /\ IsRequest(msg[1])
             THEN Dispatch(msg)
             ELSE Handled(msg, "ignored", <<>>, <<>>)
    /\ UNCHANGED <<pc, call, out, pending_mutex, pending_queue, current_counter,
                   rx_waiting, callSeq, timedOutCalls>>
    /\ UNCHANGED <<function_registry, registry_count, reg_call>>
    /\ UNCHANGED <<linkVars, sendVars>>

\* the counters, names and arguments of the requests the peer sends
RequestCounters == {0, 5}
RequestNames ==
    {SumName, EchoName, <<>>, <<115, 117>>, <<115, 117, 109, 115>>, <<83, 117, 109>>}
RequestArgs ==
    {<<>>, <<7>>, <<1, 0, 0, 0, 2, 0, 0, 0>>, <<255, 255, 255, 255, 1, 0, 0, 0>>}

\* well-formed requests, requests without a NUL, and frames that are no
\* request: too short, a Stream message, an unassigned type tag
StrayMessages ==
    {<<>>, <<MSG_TYPE_REQUEST>>}
    \cup {<<t, c>> \o SumName \o <<0>> :
            t \in {MSG_TYPE_STREAM, 0}, c \in RequestCounters}
DispatchMessages ==
    {<<MSG_TYPE_REQUEST, c>> \o n \o <<0>> \o a :
        c \in RequestCounters, n \in RequestNames, a \in RequestArgs}
    \cup {<<MSG_TYPE_REQUEST, c>> \o n : c \in RequestCounters, n \in {<<>>, SumName}}
    \cup StrayMessages

\* the application registers its functions while the peer sends requests
\* and other frames
NextDispatch ==
    \/ RegisterFunction(AppArgs, MaxRegistered)
    \/ RxDispatch(DispatchMessages)

\* one request for each path of the Request case: too short, no NUL, an
\* unknown name, a callback that reports an error, a callback that succeeds
ServeRequests ==
    {<<MSG_TYPE_REQUEST, 5>>,
     <<MSG_TYPE_REQUEST, 5>> \o SumName,
     <<MSG_TYPE_REQUEST, 0>> \o <<115, 117>> \o <<0>>,
     <<MSG_TYPE_REQUEST, 0>> \o SumName \o <<0, 7>>,
     <<MSG_TYPE_REQUEST, 5>> \o SumName \o <<0, 1, 0, 0, 0, 2, 0, 0, 0>>,
     <<MSG_TYPE_REQUEST, 0>> \o EchoName \o <<0>>}

\* the node as server and client at once: the application registers its
\* functions and one task calls, while the peer sends requests and replies
NextServe ==
    \/ RegisterFunction(AppArgs, MaxRegistered)
    \/ RxDispatch(ServeRequests)
    \/ RxReply(EmptyResponses)
    \/ CallStart(1, MaxCalls)
    \/ CallAdmit(1)
    \/ CallSend(1)
    \/ CallReceive(1)
    \/ CallTimeout(1)
    \/ CallTimeoutCleanup(1)
    \/ CallUnpack(1)
    \/ CallClear(1)
    \/ CallDone(1)

\* the application registers its functions and one task calls, while the
\* peer sends frames that are no request and no reply, and one request
NextStray ==
    \/ RegisterFunction(AppArgs, MaxRegistered)
    \/ RxDispatch(StrayMessages \cup {<<MSG_TYPE_REQUEST, 5>> \o SumName \o <<0>>})
    \/ CallStart(1, MaxCalls)
    \/ CallAdmit(1)
    \/ CallSend(1)
    \/ CallTimeout(1)
    \/ CallTimeoutCleanup(1)
    \/ CallDone(1)

(***************************************************************************)
(* The specifications.                                                     *)
(***************************************************************************)
CallerStep(c, cap) ==
    \/ CallStart(c, cap)
    \/ CallAdmit(c)
    \/ CallSend(c)
    \/ CallReceive(c)
    \/ CallTimeout(c)
    \/ CallTimeoutCleanup(c)
    \/ CallUnpack(c)
    \/ CallClear(c)
    \/ CallDone(c)

ReceiverStep(msgs) ==
    \/ RxReply(msgs)
    \/ RxBlock(msgs)
    \/ RxUnblock
    \/ RxIgnore

Next ==
    \/ \E c \in Callers : CallerStep(c, MaxCalls)
    \/ ReceiverStep(ReplyMessages)

NextWrap ==
    \/ CallerStep(1, WrapCalls)
    \/ ReceiverStep(EmptyResponses)

\* the scheduler lets every task that can run go on: a caller is never left
\* for ever in front of a step it could take
Fairness ==
    \A c \in Callers :
        /\ WF_vars(CallAdmit(c))
        /\ WF_vars(CallSend(c))
        /\ WF_vars(CallReceive(c) \/ CallTimeout(c))
        /\ WF_vars(CallTimeoutCleanup(c))
        /\ WF_vars(CallUnpack(c))
        /\ WF_vars(CallClear(c))

SpecLink == Init /\ [][NextLink]_vars
SpecSend == Init /\ [][NextSend]_vars
SpecRegister == Init /\ [][NextRegister]_vars
SpecDispatch == Init /\ [][NextDispatch]_vars
SpecStray == Init /\ [][NextStray]_vars
SpecBuild == Init /\ [][NextBuild]_vars
SpecServe == Init /\ [][NextServe]_vars
Spec == Init /\ [][Next]_vars
SpecWrap == Init /\ [][NextWrap]_vars
SpecFair == Spec /\ Fairness

(***************************************************************************)
(* Transport-layer properties.                                             *)
(***************************************************************************)
\* the stages of a call between admission and the teardown of its queue
InProgress == {"send", "wait", "got", "timedout", "clear"}

\* caller c returns from transport_call in this step
ReturnsNow(c) == pc[c] # "ret" /\ pc'[c] = "ret"

\* C1 (Call lifetime): every return of a call that created the pending
\* queue (any result but -3 and -4) leaves pending_queue == NULL.
C1_QueueClearedOnReturn ==
    [][\A c \in Callers :
          ReturnsNow(c) /\ out'[c].ret \notin {-3, -4} => pending_queue'.null]_vars

\* C2 (Call correlation): the handoff slot only ever holds an envelope built
\* from a message tagged with current_counter, a message with another
\* counter is dropped, and the envelope a call takes carries the call's own
\* counter, which is the counter of the request sent last.
C2_CallCorrelation ==
    /\ pending_queue.items # <<>> => pending_queue.items[1].msg[2] = current_counter
    /\ rx_event.act = "pushed" => rx_event.ctr = current_counter
    /\ rx_event.act \in {"nomem", "full"} => rx_event.ctr = current_counter
    /\ \A c \in Callers :
          call[c].resp_ptr # NoEnvelope =>
              /\ call[c].resp_ptr.msg[2] = call[c].counter
              /\ pc[c] \in InProgress => call[c].counter = current_counter

\* a Response tagged N-1 was dropped while the call with counter N waits
C2_Witness ==
    /\ \E c \in Callers : pc[c] = "wait" /\ call[c].counter = current_counter
    /\ pending_queue = NewQueue
    /\ rx_event = [ctr |-> (current_counter + U8 - 1) % U8, act |-> "dropped"]

\* C3 (Single outstanding call): a caller that finds a call pending returns
\* -3 in that step, sends nothing and leaves pending_queue and
\* current_counter alone; at most one caller is between admission and
\* teardown.
C3_SingleOutstandingCall ==
    /\ [](Cardinality({c \in Callers : pc[c] \in InProgress}) <= 1)
    /\ [][\A c \in Callers :
             pc[c] = "take" /\ pc'[c] # "take" /\ ~pending_queue.null =>
                 /\ pc'[c] = "ret"
                 /\ out'[c].ret = -3
                 /\ tx' = <<>>
                 /\ pending_queue' = pending_queue
                 /\ current_counter' = current_counter]_vars

\* one caller was refused while the other waits for its reply
C3_Witness ==
    \E c, d \in Callers :
        /\ pc[c] = "ret" /\ out[c].ret = -3
        /\ pc[d] = "wait" /\ call[d].counter = current_counter

\* a reply to a call that timed out: its counter is that of a tracked call
StaleFor(counter) == {k \in timedOutCalls : counter = k % U8}

\* C4 (Timeout cleanup), as stated: after a timeout return pending_queue is
\* NULL, and no message carrying the counter of a timed-out call is ever
\* placed in the handoff slot or taken by a later call.
C4_AsStated ==
    /\ \A c \in Callers : pc[c] = "ret" /\ out[c].ret = -7 => pending_queue.null
    /\ rx_event.act = "pushed" => StaleFor(rx_event.ctr) = {}
    /\ \A c \in Callers :
          call[c].resp_ptr # NoEnvelope => StaleFor(call[c].resp_ptr.msg[2]) = {}

\* C4 (Timeout cleanup), with the 8-bit counter taken into account: a reply
\* to a timed-out call k is dropped unless current_counter has come round to
\* k's counter again, a multiple of 256 calls later, and only such a call can
\* take it as its result.
C4_TimeoutCleanup ==
    /\ \A c \in Callers : pc[c] = "ret" /\ out[c].ret = -7 => pending_queue.null
    /\ rx_event.act = "pushed" =>
          \A k \in StaleFor(rx_event.ctr) :
              current_counter = k % U8 /\ callSeq >= k + U8
    /\ \A c \in Callers :
          call[c].resp_ptr # NoEnvelope =>
              \A k \in StaleFor(call[c].resp_ptr.msg[2]) :
                  call[c].seq >= k + U8 /\ (call[c].seq - k) % U8 = 0

\* the reply to the first call, which timed out, is dropped while the
\* second call waits
C4_Witness ==
    /\ timedOutCalls = {1}
    /\ pc[1] = "wait" /\ call[1].seq = 2
    /\ rx_event = [ctr |-> 1, act |-> "dropped"]

\* C5 (Call termination): every call that entered transport_call returns,
\* and a call that was sent and took no reply returns the timeout failure
\* (-7), or -6 when the send failed.
C5_CallTermination ==
    /\ \A c \in Callers : (pc[c] = "take") ~> (pc[c] = "ret")
    /\ [](\A c \in Callers :
             pc[c] = "ret" /\ call[c].seq # 0 /\ call[c].resp_ptr = NoEnvelope =>
                 out[c].ret \in {-6, -7})

\* the first call timed out and the second, with a fresh counter, returned 0
C5_Witness ==
    /\ timedOutCalls = {1}
    /\ \E c \in Callers :
          /\ pc[c] = "ret" /\ out[c].ret = 0
          /\ call[c].seq = 2 /\ call[c].counter = 2

\* the message the envelope of caller c was built from
Reply(c) == call[c].resp_ptr.msg
Returned(c) == pc[c] = "ret" /\ call[c].resp_ptr # NoEnvelope

\* what the call hands back for an Error message
ErrorResult(c, code) ==
    out[c] = [ret |-> 0, error_code |-> code, resp_len |-> 0, response |-> <<>>]

\* C6 (Call result), as stated: a delivered Response makes the call return
\* 0 with error code 0 and the bytes after the counter; a delivered Error
\* makes it return no result and the message's code byte.
C6_AsStated ==
    \A c \in Callers :
        Returned(c) =>
            IF Reply(c)[1] = MSG_TYPE_RESPONSE
            THEN out[c] = [ret |-> 0, error_code |-> 0,
                           resp_len |-> Len(Reply(c)) - 2,
                           response |-> SubSeq(Reply(c), 3, Len(Reply(c)))]
            ELSE Len(Reply(c)) >= 3 /\ ErrorResult(c, Reply(c)[3])

\* C6 (Call result), with the two cases the statement leaves out: the copy
\* of a non-empty result may fail to allocate (-8, no buffer), and an Error
\* message without a code byte is reported as ERR_INTERNAL.
C6_CallResult ==
    \A c \in Callers :
        Returned(c) =>
            IF Reply(c)[1] = MSG_TYPE_RESPONSE
            THEN \/ out[c] = [ret |-> 0, error_code |-> 0,
                              resp_len |-> Len(Reply(c)) - 2,
                              response |-> SubSeq(Reply(c), 3, Len(Reply(c)))]
                 \/ /\ Len(Reply(c)) > 2
                    /\ out[c] = [ret |-> -8, error_code |-> 0,
                                 resp_len |-> Len(Reply(c)) - 2, response |-> <<>>]
            ELSE IF Len(Reply(c)) >= 3
                 THEN ErrorResult(c, Reply(c)[3])
                 ELSE ErrorResult(c, ERR_INTERNAL)

\* a Response with one result byte came back as that byte
C6_Witness ==
    \E c \in Callers :
        /\ Returned(c)
        /\ Reply(c) = <<MSG_TYPE_RESPONSE, call[c].counter, 1>>
        /\ out[c] = [ret |-> 0, error_code |-> 0, resp_len |-> 1, response |-> <<1>>]

(***************************************************************************)
(* Link-layer properties.                                                  *)
(***************************************************************************)
\* f is a complete frame as link_layer.h lays it out, for a buffer of cap bytes
WellFormedFrame(f, cap) ==
    /\ Len(f) >= 7
    /\ f[1] = LINK_START_BYTE
    /\ LET len == f[2] + 256 * f[3]
       IN  /\ Len(f) = len + 7
           /\ f[4] = crc8_calc(SubSeq(f, 1, 3))
           /\ f[5] = LINK_DATA_START_BYTE
           /\ f[len + 6] = crc8_calc(SubSeq(f, 1, len + 5))
           /\ f[len + 7] = LINK_STOP_BYTE
           /\ len <= cap

\* the bytes of the candidate frame consumed so far, by state
CandidateBytes ==
    CASE l_state = "ST_WAIT_START" -> 0
      [] l_state = "ST_LEN_LOW"    -> 1
      [] l_state = "ST_LEN_HIGH"   -> 2
      [] l_state = "ST_HDR_CRC"    -> 3
      [] l_state = "ST_DATA_START" -> 4
      [] l_state = "ST_PAYLOAD"    -> 5 + l_idx
      [] l_state = "ST_FULL_CRC"   -> 5 + l_length
      [] l_state = "ST_STOP"       -> 6 + l_length

\* what the receiver has accepted of its candidate is a prefix of a frame
CandidateIsFramePrefix ==
    LET n == CandidateBytes
        c == SubSeq(wire, pos - n + 1, pos)
    IN  /\ n <= pos
        /\ n >= 1 => c[1] = LINK_START_BYTE
        /\ n >= 4 => /\ c[4] = crc8_calc(SubSeq(c, 1, 3))
                     /\ l_length = c[2] + 256 * c[3]
        /\ n >= 5 => c[5] = LINK_DATA_START_BYTE
        /\ l_state = "ST_PAYLOAD" => l_idx < l_length
        /\ l_state = "ST_STOP" =>
              /\ c[n] = crc8_calc(SubSeq(c, 1, n - 1))
              /\ l_length <= buffer_size

\* C7 (frame acceptance): link_receive_frame returns 0 only when the last
\* out_len + 7 bytes it consumed are a complete frame with both markers, a
\* header CRC over the first three bytes, a full CRC over everything up to
\* the last payload byte and a length within buffer_size, and then the
\* buffer holds that frame's payload; while it runs, whatever it has kept of
\* a candidate is a valid prefix of a frame (a mismatch keeps nothing).
C7_FrameAcceptance ==
    /\ lphase = "rx" => CandidateIsFramePrefix
    /\ (lphase = "ret" /\ l_rc = 0) =>
          /\ pos >= out_len + 7
          /\ LET f == SubSeq(wire, pos - out_len - 6, pos)
             IN  /\ WellFormedFrame(f, buffer_size)
                 /\ out_len = f[2] + 256 * f[3]
                 /\ \A i \in 1..out_len : buffer[i] = f[5 + i]

\* a frame was accepted from a line on which a bit had been flipped
C7_Witness ==
    /\ lphase = "ret"
    /\ l_rc = 0
    /\ flipBit >= 0
    /\ out_len = 1

\* the first payload sent, when one was
FirstPayload == sent[1]

\* C8 (round trip): on a clean line, a payload that fits the buffer comes
\* back from link_receive_frame exactly when the last byte of its frame has
\* been read: return value 0, out_len its length, the buffer its bytes.
C8_RoundTrip ==
    (/\ lphase \in {"rx", "ret"}
     /\ noise = <<>>
     /\ flipBit = -1
     /\ Len(sent) >= 1
     /\ Len(FirstPayload) <= buffer_size)
    => /\ lphase = "rx" => pos < Len(FirstPayload) + 7
       /\ (lphase = "ret" /\ l_rc = 0) =>
             /\ pos = Len(FirstPayload) + 7
             /\ out_len = Len(FirstPayload)
             /\ SubSeq(buffer, 1, out_len) = FirstPayload

\* a two-byte payload holding the start marker came back
C8_Witness ==
    /\ lphase = "ret"
    /\ l_rc = 0
    /\ noise = <<>>
    /\ flipBit = -1
    /\ sent = << <<LINK_START_BYTE, 1>> >>
    /\ SubSeq(buffer, 1, out_len) = <<LINK_START_BYTE, 1>>

\* C9 (resynchronization): after any noise (no noise here is long enough to
\* hold a frame) one well-formed frame that fits the buffer is returned:
\* the call has returned by the time the frame's last byte is read, and it
\* returns that frame's payload.
C9_Resynchronization ==
    (/\ lphase \in {"rx", "ret"}
     /\ flipBit = -1
     /\ Len(sent) = 1
     /\ Len(FirstPayload) <= buffer_size)
    => /\ lphase = "rx" => pos < Len(wire)
       /\ (lphase = "ret" /\ l_rc = 0) =>
             /\ out_len = Len(FirstPayload)
             /\ SubSeq(buffer, 1, out_len) = FirstPayload

\* C10 (CRC sensitivity and recovery): with one bit flipped in the header or
\* payload bytes of the first frame and a second frame that fits the buffer
\* right behind it, the call returns the second frame's payload, at that
\* frame's last byte and not before.
C10_BitFlipRecovery ==
    (/\ lphase \in {"rx", "ret"}
     /\ Len(sent) = 2
     /\ flipBit >= 0
     /\ flipBit < 8 * (5 + Len(FirstPayload))
     /\ Len(sent[2]) <= buffer_size)
    => /\ lphase = "rx" => pos < Len(wire)
       /\ (lphase = "ret" /\ l_rc = 0) =>
             /\ pos = Len(wire)
             /\ out_len = Len(sent[2])
             /\ SubSeq(buffer, 1, out_len) = sent[2]

\* the first frame is alone on a clean line and too long for the buffer
OversizeFrame ==
    /\ lphase \in {"rx", "ret"}
    /\ noise = <<>>
    /\ flipBit = -1
    /\ Len(sent) = 1
    /\ Len(FirstPayload) > buffer_size

\* C11 (length boundary): a frame whose length exceeds buffer_size is never
\* returned although its CRCs and markers are valid; the receiver follows it
\* through every payload byte, folding each into the CRC, and drops it at
\* ST_FULL_CRC and not before; no byte is ever stored at an index >=
\* buffer_size.
C11_LengthBoundary ==
    /\ lphase \in {"rx", "ret"} =>
          \A i \in (buffer_size + 1)..Len(buffer) : buffer[i] = Garbage
    /\ (lphase = "ret" /\ l_rc = 0) => out_len <= buffer_size
    /\ OversizeFrame =>
          LET L == Len(FirstPayload) IN
          /\ ~(lphase = "ret" /\ l_rc = 0)
          /\ (pos >= 1 /\ pos <= L + 5) => l_state # "ST_WAIT_START"
          /\ (pos >= 5 /\ pos <= L + 5) =>
                /\ l_idx = pos - 5
                /\ l_crc = crc8_calc(SubSeq(wire, 1, pos))
                /\ \A i \in 1..l_idx :
                      i <= buffer_size => buffer[i] = FirstPayload[i]
          /\ pos = L + 5 => l_state = "ST_FULL_CRC"
          /\ pos >= L + 6 => l_state = "ST_WAIT_START"

\* a two-byte frame was dropped at its full CRC by a one-byte buffer, which
\* holds the first payload byte and nothing behind it
C11_Witness ==
    /\ OversizeFrame
    /\ lphase = "rx"
    /\ Len(FirstPayload) = 2
    /\ buffer_size = 1
    /\ pos = 8
    /\ l_state = "ST_WAIT_START"
    /\ buffer[1] = FirstPayload[1]
    /\ buffer[2] = Garbage

\* the frame of payload p as the frame format lays it out
FrameLayout(p) ==
    LET L == Len(p)
        hdr == <<LINK_START_BYTE, L % 256, L \div 256>>
        upToPayload == hdr \o <<crc8_calc(hdr), LINK_DATA_START_BYTE>> \o p
    IN  upToPayload \o <<crc8_calc(upToPayload), LINK_STOP_BYTE>>

\* link_send_frame returned and its payload was not a null one with length > 0
SentFrame == send_pc = "done" /\ ~(send_args.null /\ send_args.length > 0)

\* C12 (frame encoding), as stated: every call with a payload hands the sink
\* exactly one buffer, the frame of L + 7 bytes, and returns 0 exactly when
\* the sink reports L + 7 bytes written; a null payload with L > 0 fails
\* with nothing written.
C12_AsStated ==
    /\ SentFrame =>
          /\ Len(sink) = 1
          /\ sink[1].data = FrameLayout(send_args.payload)
          /\ Len(sink[1].data) = send_args.length + 7
          /\ send_rc = 0 <=> sink[1].written = send_args.length + 7
    /\ (send_pc = "done" /\ ~SentFrame) => (send_rc # 0 /\ sink = <<>>)

\* C12 (frame encoding), with the allocation of the frame buffer taken into
\* account: a call with a payload either fails with -2 and nothing written,
\* or hands the sink exactly one buffer, the frame of L + 7 bytes, and
\* returns 0 exactly when the sink reports L + 7 bytes written; a null
\* payload with L > 0 fails with nothing written.
C12_FrameEncoding ==
    /\ SentFrame =>
          \/ send_rc = -2 /\ sink = <<>>
          \/ /\ Len(sink) = 1
             /\ sink[1].data = FrameLayout(send_args.payload)
             /\ Len(sink[1].data) = send_args.length + 7
             /\ send_rc = 0 <=> sink[1].written = send_args.length + 7
             /\ send_rc \in {0, -3}
    /\ (send_pc = "done" /\ ~SentFrame) => (send_rc = -1 /\ sink = <<>>)

\* a two-byte payload went out as nine bytes and the sink wrote them all
C12_Witness ==
    /\ send_pc = "done"
    /\ send_args.payload = <<1, LINK_START_BYTE>>
    /\ send_rc = 0
    /\ Len(sink) = 1
    /\ Len(sink[1].data) = 9
    /\ sink[1].written = 9

\* this step is a call of transport_register_function
Registers == reg_call' # reg_call \/ registry_count' # registry_count

\* C16 (registration failures): a registration fails and leaves the registry
\* and its count as they were when the registry holds 8 entries, when the
\* name is empty (a null pointer or the empty string) or when the callback
\* is absent; every other registration appends exactly one entry; the count
\* never exceeds 8.
C16_RegistrationFailures ==
    /\ [](registry_count <= MAX_FUNCTIONS)
    /\ [][Registers =>
            IF \/ registry_count >= MAX_FUNCTIONS
               \/ reg_call'.name.null
               \/ reg_call'.name.str = <<>>
               \/ reg_call'.callback = "NULL"
            THEN /\ reg_call'.rc # 0
                 /\ UNCHANGED <<function_registry, registry_count>>
            ELSE /\ reg_call'.rc = 0
                 /\ registry_count' = registry_count + 1
                 /\ function_registry' =
                       [function_registry EXCEPT ![registry_count + 1] =
                           [name |-> reg_call'.name.str,
                            callback |-> reg_call'.callback]]]_vars

\* msg is a Request with a NUL at or after offset 2
WellFormedRequest(msg) ==
    /\ Len(msg) >= 3
    /\ msg[1] = MSG_TYPE_REQUEST
    /\ \E i \in 3..Len(msg) : msg[i] = 0

\* the name of a well-formed Request and the bytes after its NUL
RequestName(msg) == SubSeq(msg, 3, NulIndex(msg))
RequestArgsOf(msg) == SubSeq(msg, NulIndex(msg) + 2, Len(msg))

\* the name is that of a registered entry
Registered(name) == \E i \in 1..registry_count : function_registry[i].name = name

\* the receiver task has just handled the Request rx_msg, whose name is
\* registered
FoundRequest ==
    /\ rx_event.act \in {"called", "notfound", "malformed", "ignored"}
    /\ WellFormedRequest(rx_msg)
    /\ Registered(RequestName(rx_msg))

\* the callback of a matching entry ran once, on the bytes after the NUL
RanOnce ==
    /\ Len(invoked) = 1
    /\ invoked[1].args = RequestArgsOf(rx_msg)
    /\ \E i \in 1..registry_count :
          /\ function_registry[i].name = RequestName(rx_msg)
          /\ function_registry[i].callback = invoked[1].callback
    /\ invoked[1].result \in CallbackResults(invoked[1].callback, invoked[1].args)

\* the request sum(1, 2) with counter 5
SumOneTwo == <<MSG_TYPE_REQUEST, 5>> \o SumName \o <<0, 1, 0, 0, 0, 2, 0, 0, 0>>

\* C13 (dispatch of a found function), as stated: the callback runs once
\* with the bytes after the NUL, and Error(c, code) is sent if its error
\* code is nonzero, Response(c, result bytes) if it is zero.
C13_AsStated ==
    FoundRequest =>
        /\ RanOnce
        /\ tx = IF invoked[1].result.err_code # 0
                THEN <<MSG_TYPE_ERROR, rx_msg[2], invoked[1].result.err_code>>
                ELSE <<MSG_TYPE_RESPONSE, rx_msg[2]>> \o invoked[1].result.resp_data

\* C13 (dispatch of a found function), with the allocation of the Response
\* payload taken into account: the callback runs once with the bytes after
\* the NUL; Error(c, code) is sent if its error code is nonzero; if it is
\* zero, Response(c, result bytes) is sent, or Error(c, ERR_INTERNAL) when
\* the Response payload cannot be allocated. sum(1, 2) with counter 5 is
\* answered by [0x16, 0x05, '3'] whenever a Response is sent.
C13_DispatchFound ==
    /\ FoundRequest =>
          /\ RanOnce
          /\ IF invoked[1].result.err_code # 0
             THEN tx = <<MSG_TYPE_ERROR, rx_msg[2], invoked[1].result.err_code>>
             ELSE tx \in {<<MSG_TYPE_RESPONSE, rx_msg[2]>> \o invoked[1].result.resp_data,
                          <<MSG_TYPE_ERROR, rx_msg[2], ERR_INTERNAL>>}
    /\ (/\ FoundRequest
        /\ rx_msg = SumOneTwo
        /\ invoked[1].callback = "rpc_sum"
        /\ tx[1] = MSG_TYPE_RESPONSE) => tx = <<MSG_TYPE_RESPONSE, 5, 51>>

\* sum(1, 2) with counter 5 was answered by [0x16, 0x05, '3']
C13_Witness ==
    /\ rx_event.act = "called"
    /\ rx_msg = SumOneTwo
    /\ Len(invoked) = 1
    /\ invoked[1].callback = "rpc_sum"
    /\ tx = <<MSG_TYPE_RESPONSE, 5, 51>>

\* the receiver task has just handled the frame rx_msg
HandledFrame == rx_event.act \in {"called", "notfound", "malformed", "ignored"}

\* C14 (unknown function): a well-formed Request whose name equals no
\* registered name byte for byte is answered by exactly [0x21, c, 0x01] and
\* runs no callback.
C14_UnknownFunction ==
    (/\ HandledFrame
     /\ WellFormedRequest(rx_msg)
     /\ ~Registered(RequestName(rx_msg)))
    => /\ tx = <<MSG_TYPE_ERROR, rx_msg[2], 1>>
       /\ invoked = <<>>

\* with "sum" registered, requests for "su", "sums" and "Sum" are each
\* answered by function-not-found; this one is "sums"
C14_Witness ==
    /\ HandledFrame
    /\ Registered(SumName)
    /\ WellFormedRequest(rx_msg)
    /\ RequestName(rx_msg) = SumName \o <<115>>
    /\ tx = <<MSG_TYPE_ERROR, rx_msg[2], 1>>
    /\ invoked = <<>>

\* C15 (malformed request): a Request of at least 2 bytes without a NUL at
\* or after offset 2 is answered by exactly [0x21, c, 0x02], runs no
\* callback, and nothing else is done for the frame.
C15_MalformedRequest ==
    (/\ HandledFrame
     /\ Len(rx_msg) >= 2
     /\ rx_msg[1] = MSG_TYPE_REQUEST
     /\ \A i \in 3..Len(rx_msg) : rx_msg[i] # 0)
    => /\ tx = <<MSG_TYPE_ERROR, rx_msg[2], 2>>
       /\ invoked = <<>>
       /\ rx_event.act = "malformed"

\* a Request of exactly two bytes was answered by [0x21, 5, 2]
C15_Witness ==
    /\ HandledFrame
    /\ rx_msg = <<MSG_TYPE_REQUEST, 5>>
    /\ registry_count > 0
    /\ tx = <<MSG_TYPE_ERROR, 5, 2>>

\* C20 (unknown type tags): a frame shorter than 2 bytes, or one whose type
\* tag is none of 0x0B, 0x16, 0x21, makes the receiver task send nothing and
\* run no callback, and leaves the pending call, the counter and the
\* registry as they were.
C20_UnknownTypeIgnored ==
    [][(/\ rx_event'.act # "none"
        /\ \/ Len(rx_msg') < 2
           \/ rx_msg'[1] \notin {11, 22, 33})
       => /\ rx_event'.act = "ignored"
          /\ tx' = <<>>
          /\ invoked' = <<>>
          /\ UNCHANGED <<pc, call, out, pending_mutex, pending_queue, current_counter,
                         function_registry, registry_count>>]_vars

\* a Stream message naming "sum" was ignored while a call was pending and
\* "sum" was registered
C20_Witness ==
    /\ rx_event.act = "ignored"
    /\ Len(rx_msg) > 2
    /\ rx_msg[1] = MSG_TYPE_STREAM
    /\ Registered(SumName)
    /\ pc[1] = "wait"
    /\ ~pending_queue.null
    /\ tx = <<>>

\* C17 (lock released before send): no caller holds pending_mutex while its
\* request is in link_send_frame, and the receiver task never waits for the
\* mutex while a caller is in link_send_frame.
C17_LockReleasedBeforeSend ==
    \A c \in Callers :
        pc[c] = "send" => /\ pending_mutex # c
                          /\ rx_waiting = <<>>

\* caller c is blocked in xQueueReceive (transport.c:140)
Waiting(c) == pc[c] = "wait"

\* some task of the system can take a step
CanStep ==
    \/ ENABLED (\E c \in Callers : CallAdmit(c) \/ CallSend(c) \/ CallReceive(c)
                                      \/ CallTimeout(c) \/ CallTimeoutCleanup(c)
                                      \/ CallUnpack(c) \/ CallClear(c))
    \/ ENABLED RxUnblock

\* C18 (no lock across the reply wait): while a caller waits on the handoff
\* queue nobody holds pending_mutex, so a reply can be delivered at once;
\* and as long as a call is under way or the receiver task waits for the
\* mutex, some task can take a step.
C18_NoLockAcrossWait ==
    /\ (\E c \in Callers : Waiting(c)) =>
          /\ pending_mutex = 0
          /\ rx_waiting = <<>> => ENABLED RxReply(ReplyMessages)
    /\ (rx_waiting # <<>> \/ \E c \in Callers : pc[c] \in InProgress \cup {"take"})
          => CanStep

\* the reply of the waiting call went into its queue while the call waited
C18_Witness ==
    /\ \E c \in Callers : Waiting(c) /\ call[c].counter = rx_event.ctr
    /\ rx_event.act = "pushed"
    /\ pending_queue.items # <<>>
    /\ pending_mutex = 0

\* caller c leaves link_send_frame with a failure: no request went out
SendFails(c) == pc[c] = "send" /\ pc'[c] # "send" /\ tx' = <<>>

\* C19 (send failure): a call whose link_send_frame fails returns -6 in
\* that step without waiting, with the queue deleted, pending_queue NULL
\* and the mutex free, so the next call is not refused.
C19_SendFailure ==
    [][\A c \in Callers :
          SendFails(c) => /\ pc'[c] = "ret"
                          /\ out'[c].ret = -6
                          /\ pending_queue' = NullQueue
                          /\ pending_mutex' = 0
                          /\ \A d \in Callers : pc'[d] \notin InProgress]_vars

\* the first call failed in link_send_frame and the second was admitted
\* and waits for its reply
C19_Witness ==
    \E c, d \in Callers :
        /\ c # d
        /\ pc[c] = "ret" /\ out[c].ret = -6 /\ call[c].seq = 1
        /\ pc[d] = "wait" /\ call[d].seq = 2
        /\ ~pending_queue.null

\* caller c returns the timeout failure in this step
TimesOut(c) == ReturnsNow(c) /\ out'[c].ret = -7

\* C21 (accepted reply is returned): a call returns the timeout failure
\* only if the handoff slot holds no accepted reply at that moment: no
\* reply pushed into the slot of the pending call is lost to a timeout.
C21_AcceptedReplyReturned ==
    [][\A c \in Callers : TimesOut(c) => pending_queue.items = <<>>]_vars

\* transport.c:289 gave the receiver task an envelope in this step
EnvelopeAllocated == rx_event'.act \in {"pushed", "full"}
\* transport.c:297: xQueueSend moved the envelope into the handoff slot
EnvelopeQueued == rx_event'.act = "pushed"
\* transport.c:143 and 176: vQueueDelete of a queue whose slot holds an
\* envelope; the queue's storage goes, the envelope it points to stays
EnvelopeDropped == pending_queue.items # <<>> /\ pending_queue'.null

\* C22 (envelope single ownership): an envelope the receiver task allocated
\* and could not push is not left allocated, and no queue is deleted while
\* its slot holds an envelope nobody took: no envelope becomes unreachable
\* without having been released.
C22_EnvelopeOwnership ==
    [][/\ EnvelopeAllocated => EnvelopeQueued
       /\ ~EnvelopeDropped]_vars

\* the receiver task has just handled a Response or Error frame
HandledReply == rx_event.act \in {"dropped", "nomem", "pushed", "full"}

\* C23 (exactly one reply per request): whatever path the Request case
\* takes, the frame handed to the link layer for a Request with counter c
\* is one Response or one 3-byte Error carrying c; handling a Response or
\* an Error sends nothing.
C23_OneReplyPerRequest ==
    /\ (HandledFrame /\ Len(rx_msg) >= 2 /\ rx_msg[1] = MSG_TYPE_REQUEST) =>
          /\ Len(tx) >= 2
          /\ tx[1] \in {MSG_TYPE_RESPONSE, MSG_TYPE_ERROR}
          /\ tx[2] = rx_msg[2]
          /\ tx[1] = MSG_TYPE_ERROR => Len(tx) = 3
    /\ HandledReply => tx = <<>>

\* rpc_sum succeeded for the request with counter 5, the Response payload
\* could not be allocated, and the one frame sent is Error(5, 2)
C23_Witness ==
    /\ HandledFrame
    /\ rx_msg = SumOneTwo
    /\ Len(invoked) = 1
    /\ invoked[1].result.err_code = 0
    /\ tx = <<MSG_TYPE_ERROR, 5, ERR_INTERNAL>>

\* C24 (error replies are visible as errors): a call that returns 0 after
\* an Error message was delivered to it reports a nonzero error_code.
C24_ErrorVisible ==
    \A c \in Callers :
        (Returned(c) /\ out[c].ret = 0 /\ Reply(c)[1] = MSG_TYPE_ERROR)
            => out[c].error_code # 0

\* C25 (request payload bounds): the bytes written into an allocated
\* request payload never exceed the payload_len it was allocated with, and
\* the 8-bit name_len is the length of the name.
C25_PayloadBounds ==
    /\ payload_build.allocated => payload_build.off <= payload_build.payload_len
    /\ payload_build.name_len = payload_build.strlen

====
